---- MODULE Spec2Model ----
(***************************************************************************)
(* Model of yt_downloader.py: the media fetch adapter (yt_downloader), the *)
(* task source (get_download_tasks_from_json / _yaml) and the orchestrator *)
(* (run_download_tasks, a ThreadPoolExecutor.map over download_task).      *)
(*                                                                         *)
(* A str is a sequence of one-character strings, a dict is a function      *)
(* whose DOMAIN is its set of keys, a Path is [dir, name], and an          *)
(* exception is the string of its message.                                 *)
(***************************************************************************)
EXTENDS Integers, Sequences, FiniteSets, TLC

\* ------------------------------------------------------------------ bounds
MaxTasks == 2          \* longest task list given to run_download_tasks
MaxWorkersArg == 2     \* largest max_workers argument
MaxMtime == 2          \* st_mtime values are 1..MaxMtime

\* ----------------------------------------------------------------- helpers
Min(a, b) == IF a <= b THEN a ELSE b

EmptyDict == [k \in {} |-> k]

\* dict.get(k, d)
Get(t, k, d) == IF k \in DOMAIN t THEN t[k] ELSE d

\* Python's None, where a str is expected
None == "None"

Range(s) == {s[i] : i \in DOMAIN s}

\* --------------------------------------------------------------- str.strip
IsSpace(c) == c = " "

RECURSIVE LStrip(_)
LStrip(s) == IF s # <<>> /\ IsSpace(Head(s)) THEN LStrip(Tail(s)) ELSE s

RECURSIVE RStrip(_)
RStrip(s) ==
    IF s # <<>> /\ IsSpace(s[Len(s)]) THEN RStrip(SubSeq(s, 1, Len(s) - 1)) ELSE s

Strip(s) == RStrip(LStrip(s))

\* yt_downloader's input validation: `not url or not url.strip()`
\* (UrlRejectedNoStrip: `not url` alone)
UrlRejectedNoStrip(url) == url = <<>>

UrlRejected(url) == url = <<>> \/ Strip(url) = <<>>

\* ------------------------------------------------- _prepare_download_options
TitleGiven(title) == title # None /\ title # ""

PrepareDownloadOptions(target_dir, only_audio, quality, title) ==
    [ retries |-> 10, fragment_retries |-> 10, socket_timeout |-> 30,
      ignoreerrors |-> TRUE, continuedl |-> TRUE,
      format |->
        IF only_audio
        THEN (IF quality = "highest" THEN "bestaudio" ELSE "worstaudio")
        ELSE (IF quality = "highest"
              THEN "bestvideo[ext=mp4]+bestaudio[ext=m4a]/best[ext=mp4]"
              ELSE "worstvideo[ext=mp4]+worstaudio[ext=m4a]/worst[ext=mp4]"),
      outtmpl |->
        [ dir  |-> target_dir,
          stem |-> IF TitleGiven(title) THEN title ELSE "%(title)s",
          ext  |-> IF only_audio THEN "%(ext)s" ELSE "mp4" ],
      postprocessor |->
        IF only_audio THEN "FFmpegExtractAudio" ELSE "FFmpegVideoConvertor",
      extract_audio |-> only_audio,
      writesubtitles |-> FALSE, writeautomaticsub |-> FALSE ]

\* ------------------------------------------------------------------- paths
\* A relative path has dir = "".  Path.__truediv__: an absolute right operand
\* replaces the left one.
PathJoin(dir, f) == IF f.dir = "" THEN [dir |-> dir, name |-> f.name] ELSE f

\* target_dir.glob("*"): every entry of the directory
Glob(dir, fls) == {p \in DOMAIN fls : p.dir = dir}

\* ------------------------------------------- yt_downloader: output resolution
\* Method 1: the filepaths of info_dict["requested_downloads"]
RECURSIVE FilePaths(_)
FilePaths(rd) ==
    IF rd = <<>> THEN <<>>
    ELSE (IF "filepath" \in DOMAIN Head(rd) THEN <<Head(rd).filepath>> ELSE <<>>)
         \o FilePaths(Tail(rd))

Method1(info) ==
    IF Get(info, "requested_downloads", <<>>) # <<>>
    THEN FilePaths(info.requested_downloads)
    ELSE <<>>

\* Method 2: list(target_dir.glob("*")), in any order the directory yields
RECURSIVE Orders(_)
Orders(S) ==
    IF S = {} THEN {<<>>}
    ELSE UNION {{<<p>> \o o : o \in Orders(S \ {p})} : p \in S}

Method2(target_dir, fls) == Orders(Glob(target_dir, fls))

\* Method 3: target_dir / info_dict["filename"], when it exists
Method3(info, target_dir, fls) ==
    IF "filename" \in DOMAIN info /\ PathJoin(target_dir, info.filename) \in DOMAIN fls
    THEN <<PathJoin(target_dir, info.filename)>>
    ELSE <<>>

\* The lists downloaded_files can be after the three methods (lines 53-71)
\* (DownloadedFilesGlobFirst: methods 1 and 2 in the other order)
DownloadedFilesGlobFirst(info, target_dir, fls) ==
    IF Glob(target_dir, fls) # {} THEN Method2(target_dir, fls)
    ELSE IF Method1(info) # <<>> THEN {Method1(info)}
    ELSE {Method3(info, target_dir, fls)}

DownloadedFiles(info, target_dir, fls) ==
    IF Method1(info) # <<>> THEN {Method1(info)}
    ELSE IF Glob(target_dir, fls) # {} THEN Method2(target_dir, fls)
    ELSE {Method3(info, target_dir, fls)}

\* list.sort(key=st_mtime, reverse=True)[0]: the sort is stable, so the first
\* element of the list that has the greatest mtime
\* (OldestFirst: the sort without reverse=True)
OldestFirst(lst, fls) ==
    lst[CHOOSE i \in DOMAIN lst :
          /\ \A j \in DOMAIN lst : fls[lst[j]] >= fls[lst[i]]
          /\ \A j \in 1..(i - 1) : fls[lst[j]] > fls[lst[i]]]

MostRecent(lst, fls) ==
    lst[CHOOSE i \in DOMAIN lst :
          /\ \A j \in DOMAIN lst : fls[lst[j]] <= fls[lst[i]]
          /\ \A j \in 1..(i - 1) : fls[lst[j]] < fls[lst[i]]]

ErrNoFiles == "Error downloading: No files were downloaded"
ErrStat == "Error downloading: FileNotFoundError"
ErrFetch == "Error downloading: DownloadError"
ErrEmptyUrl == "URL cannot be empty"
ErrMkdir == "OSError: mkdir"
ErrLogOpen == "OSError: downloads.txt"
ErrNoUrlKey == "KeyError: 'url'"

\* Lines 73-84 on one value of downloaded_files
PickFile(lst, fls) ==
    IF lst = <<>> THEN [ok |-> FALSE, error |-> ErrNoFiles]
    ELSE IF Len(lst) = 1 THEN [ok |-> TRUE, path |-> lst[1]]
    ELSE IF \E i \in DOMAIN lst : lst[i] \notin DOMAIN fls
         THEN [ok |-> FALSE, error |-> ErrStat]
    ELSE [ok |-> TRUE, path |-> MostRecent(lst, fls)]

\* What yt_downloader can return or raise once extract_info has returned info
ResolveOutcomes(info, target_dir, fls) ==
    {PickFile(lst, fls) : lst \in DownloadedFiles(info, target_dir, fls)}

\* ------------------------------------------ the provider (yt_dlp.YoutubeDL)
\* extract_info(url, download=True) is outside this repository: it raises, or
\* returns an info_dict and may have written one file named after outtmpl.
VideoTitles == {"v"}

OutPath(opts, vt) ==
    [ dir  |-> opts.outtmpl.dir,
      name |-> << IF opts.outtmpl.stem = "%(title)s" THEN vt ELSE opts.outtmpl.stem,
                  IF opts.outtmpl.ext = "%(ext)s" THEN "mp3" ELSE opts.outtmpl.ext >> ]

\* A second path the provider may report: the stream it fetched before the
\* post-processor renamed it (not necessarily still on disk)
RawPath(opts, vt) == [dir |-> opts.outtmpl.dir, name |-> <<vt, "webm">>]

\* A file outside every target directory
Elsewhere == [dir |-> "/tmp", name |-> <<"x", "mp4">>]

\* info_dicts of the batch runs: files reported or not
PlainInfos(opts, vt) ==
    {EmptyDict, [requested_downloads |-> <<[filepath |-> OutPath(opts, vt)]>>]}

\* info_dicts of a single call: every shape of requested_downloads and filename
RequestedDownloads(opts, vt) ==
    { <<>>,
      <<[format_id |-> "18"]>>,
      <<[filepath |-> OutPath(opts, vt)]>>,
      <<[filepath |-> RawPath(opts, vt)], [filepath |-> OutPath(opts, vt)]>>,
      <<[format_id |-> "18"], [filepath |-> Elsewhere]>> }

Filenames(opts, vt) ==
    { [dir |-> "", name |-> OutPath(opts, vt).name], Elsewhere }

AllInfos(opts, vt) ==
    {r @@ f : r \in {EmptyDict} \cup
                    {[requested_downloads |-> rd] : rd \in RequestedDownloads(opts, vt)},
              f \in {EmptyDict} \cup
                    {[filename |-> n] : n \in Filenames(opts, vt)}}

\* The file system after the provider wrote (or did not write) its output
Written(fls, p, m) == [q \in DOMAIN fls \cup {p} |-> IF q = p THEN m ELSE fls[q]]

\* The file a provider call created: its output, unless it wrote none or wrote
\* over a file that was there
Created(fls, opts, vt, writes) ==
    IF writes /\ OutPath(opts, vt) \notin DOMAIN fls
    THEN [path |-> OutPath(opts, vt)]
    ELSE EmptyDict

\* Every way extract_info can return: the info_dict, the file system it leaves
\* and (history) the file it created
ProviderReturns(fls, opts, rich) ==
    UNION { { [ info  |-> info,
                files |-> IF writes THEN Written(fls, OutPath(opts, vt), m) ELSE fls,
                made  |-> Created(fls, opts, vt, writes) ]
              : info \in IF rich THEN AllInfos(opts, vt) ELSE PlainInfos(opts, vt) }
            : vt \in VideoTitles, m \in 1..MaxMtime, writes \in BOOLEAN }

\* =================================================================== state
VARIABLES
    download_tasks,  \* run_download_tasks' first argument: a list of dicts
    max_workers,     \* run_download_tasks' second argument
    main_pc,         \* the caller: "call", "collect", "shutdown", "unwind",
                     \*             "returned", "raised"
    pool,            \* the executor's max_workers (0 before it is constructed)
    results,         \* the results executor.map has yielded so far
    queue,           \* the executor's work queue: indices of tasks not yet started
    future,          \* one Future per task
    run,             \* per task, where the thread running download_task on it is
    files,           \* the file system: Path -> st_mtime
    dirs,            \* the directories that exist
    log,             \* what has been appended to downloads.txt: [task, text]
    io,              \* history: the I/O done on behalf of each task, <<task, kind>>
    dcall,           \* a direct call of yt_downloader (SpecResolve)
    cfg              \* a call of get_download_tasks_from_json/_yaml (SpecConfig)

vars == <<download_tasks, max_workers, main_pc, pool, results, queue, future, run,
          files, dirs, log, io, dcall, cfg>>

\* ------------------------------------------------------------------ inputs
DefaultDir == "./downloads"

\* No url; an empty, a blank and two usable urls; every optional field left
\* out or given
TaskSet ==
    { EmptyDict,
      [url |-> <<>>],
      [url |-> <<" ">>, target_dir |-> "d"],
      [url |-> <<" ", "a">>],
      [url |-> <<"b">>, only_audio |-> FALSE, quality |-> "lowest", title |-> "t"] }

TaskLists == UNION {[1..n -> TaskSet] : n \in 0..MaxTasks}

\* What the default target directory may hold before the call
OldFile == [dir |-> DefaultDir, name |-> <<"old", "mp4">>]
PriorFiles == {EmptyDict, [p \in {OldFile} |-> 1]}

\* unreported: history, the file the provider's call created and did not report
\* (none: EmptyDict)
Idle == [pc |-> "idle", args |-> EmptyDict, info |-> EmptyDict,
         unreported |-> EmptyDict, res |-> EmptyDict]

NoCall == [pc |-> "none"]
NoCfg == [pc |-> "none"]

Init ==
    /\ download_tasks \in TaskLists
    /\ max_workers \in 0..MaxWorkersArg
    /\ main_pc = "call"
    /\ pool = 0
    /\ results = <<>>
    /\ queue = <<>>
    /\ future = <<>>
    /\ run = <<>>
    /\ files \in PriorFiles
    /\ dirs = {p.dir : p \in DOMAIN files}
    /\ log = <<>>
    /\ io = {}
    /\ dcall = NoCall
    /\ cfg = NoCfg

\* ------------------------------------------------------ run_download_tasks
\* max_workers = min(max_workers, len(download_tasks)), line 250
\* (EffectiveWorkersMax: max for min)
EffectiveWorkersMax(k, n) == IF k >= n THEN k ELSE n

EffectiveWorkers(k, n) == Min(k, n)

\* The tasks a thread of the pool is running download_task on
InFlight == {i \in DOMAIN run : run[i].pc # "idle"}

\* ThreadPoolExecutor(max_workers) raises ValueError unless max_workers > 0;
\* executor.map submits every task before the first result is awaited.
Start ==
    /\ main_pc = "call"
    /\ LET n == Len(download_tasks)
           eff == EffectiveWorkers(max_workers, n)
       IN IF eff <= 0
          THEN /\ main_pc' = "raised"
               /\ UNCHANGED <<pool, queue, future, run>>
          ELSE /\ main_pc' = "collect"
               /\ pool' = eff
               /\ queue' = [i \in 1..n |-> i]
               /\ future' = [i \in 1..n |-> [st |-> "pending"]]
               /\ run' = [i \in 1..n |-> Idle]
    /\ UNCHANGED <<download_tasks, max_workers, results, files, dirs, log, io, dcall, cfg>>

\* The arguments download_task passes to yt_downloader (lines 234-240)
DownloadTaskArgs(task) ==
    [ url |-> task["url"],
      target_dir |-> Get(task, "target_dir", "./downloads"),
      only_audio |-> Get(task, "only_audio", TRUE),
      quality |-> Get(task, "quality", "highest"),
      title |-> Get(task, "title", None) ]

Opts(a) == PrepareDownloadOptions(a.target_dir, a.only_audio, a.quality, a.title)

\* download_task's except clause (line 247): the Failure, or the KeyError that
\* task["url"] raises once more when the task has no url
Failed(i, e) ==
    IF "url" \in DOMAIN download_tasks[i]
    THEN [st |-> "done", result |-> [url |-> download_tasks[i]["url"], error |-> e]]
    ELSE [st |-> "exc", exc |-> ErrNoUrlKey]

\* download_task ends on task i: its future is set and the thread is free again
Finish(i, f) ==
    /\ future' = [future EXCEPT ![i] = f]
    /\ run' = [run EXCEPT ![i] = Idle]

\* A free thread takes the next task off the queue and runs download_task up to
\* yt_downloader's call of the provider: task["url"] (line 233), the task.get
\* defaults (234-240), the validation (37-38), target_dir.mkdir (41-42, outside
\* the try: an OSError reaches download_task unwrapped) and the options (45).
Take ==
    /\ main_pc \in {"collect", "shutdown"}
    /\ queue # <<>>
    /\ Cardinality(InFlight) < pool
    /\ LET i == Head(queue)
           task == download_tasks[i]
       IN /\ queue' = Tail(queue)
          /\ IF "url" \notin DOMAIN task
             THEN /\ Finish(i, Failed(i, ErrNoUrlKey))
                  /\ UNCHANGED <<dirs, io>>
             ELSE LET a == DownloadTaskArgs(task)
                  IN IF UrlRejected(a.url)
                     THEN /\ Finish(i, Failed(i, ErrEmptyUrl))
                          /\ UNCHANGED <<dirs, io>>
                     ELSE /\ io' = io \cup {<<i, "mkdir">>}
                          /\ \/ /\ dirs' = dirs \cup {a.target_dir}
                                /\ run' = [run EXCEPT ![i] =
                                             [Idle EXCEPT !.pc = "fetch", !.args = a]]
                                /\ future' = [future EXCEPT ![i] = [st |-> "running"]]
                             \/ /\ a.target_dir \notin dirs
                                /\ Finish(i, Failed(i, ErrMkdir))
                                /\ UNCHANGED dirs
    /\ UNCHANGED <<download_tasks, max_workers, main_pc, pool, results, files, log, dcall, cfg>>

\* ydl.extract_info(url, download=True), line 50
Fetch(i) ==
    /\ run[i].pc = "fetch"
    /\ io' = io \cup {<<i, "fetch">>}
    /\ LET opts == Opts(run[i].args)
       IN \/ /\ Finish(i, Failed(i, ErrFetch))
             /\ UNCHANGED files
          \/ \E r \in ProviderReturns(files, opts, FALSE) :
                /\ files' = r.files
                /\ run' = [run EXCEPT ![i].pc = "resolve", ![i].info = r.info,
                                      ![i].unreported =
                                         IF Method1(r.info) = <<>> THEN r.made
                                                                   ELSE EmptyDict]
                /\ UNCHANGED future
    /\ UNCHANGED <<download_tasks, max_workers, main_pc, pool, results, queue, dirs, log, dcall, cfg>>

\* Lines 52-84, the three methods, the sort, the return or the wrapped error;
\* then open("downloads.txt", "a", encoding="utf-8"), line 243
Resolve(i) ==
    /\ run[i].pc = "resolve"
    /\ \E o \in ResolveOutcomes(run[i].info, run[i].args.target_dir, files) :
         IF o.ok
         THEN \/ /\ run' = [run EXCEPT ![i].pc = "write", ![i].info = EmptyDict,
                                       ![i].res = [url |-> download_tasks[i]["url"],
                                                   path |-> o.path]]
                 /\ io' = io \cup {<<i, "logopen">>}
                 /\ UNCHANGED future
              \/ /\ Finish(i, Failed(i, ErrLogOpen))
                 /\ UNCHANGED io
         ELSE /\ Finish(i, Failed(i, o.error))
              /\ UNCHANGED io
    /\ UNCHANGED <<download_tasks, max_workers, main_pc, pool, results, queue, files, dirs, log, dcall, cfg>>

\* f.write(f"{task['url']}\n") and the with block's close, which flushes the
\* buffered text to the file in one append (line 244); then `return result`
\* (LogTextStripped: the stripped url is written)
LogTextStripped(task) == Strip(task["url"]) \o <<"\n">>

LogText(task) == task["url"] \o <<"\n">>

LogWriteClose(i) ==
    /\ run[i].pc = "write"
    /\ log' = Append(log, [task |-> i, text |-> LogText(download_tasks[i])])
    /\ io' = io \cup {<<i, "logwrite">>}
    /\ Finish(i, [st |-> "done", result |-> run[i].res])
    /\ UNCHANGED <<download_tasks, max_workers, main_pc, pool, results, queue, files, dirs, dcall, cfg>>

\* list(executor.map(...)), line 252: the results are awaited in task order; a
\* future that holds an exception re-raises it, and map's iterator then cancels
\* the futures that have not started
Collect ==
    /\ main_pc = "collect"
    /\ LET i == Len(results) + 1
       IN IF i > Len(download_tasks)
          THEN /\ main_pc' = "shutdown"
               /\ UNCHANGED <<results, queue, future>>
          ELSE \/ /\ future[i].st = "done"
                  /\ results' = Append(results, future[i].result)
                  /\ UNCHANGED <<main_pc, queue, future>>
               \/ /\ future[i].st = "exc"
                  /\ main_pc' = "unwind"
                  /\ queue' = <<>>
                  /\ future' = [j \in DOMAIN future |->
                                  IF j \in Range(queue) THEN [st |-> "cancelled"]
                                  ELSE future[j]]
                  /\ UNCHANGED results
    /\ UNCHANGED <<download_tasks, max_workers, pool, run, files, dirs, log, io, dcall, cfg>>

\* The with block's exit, executor.shutdown(wait=True), line 251: the threads
\* finish what they run; then `return results` (line 253), or the exception
\* leaves run_download_tasks
Shutdown ==
    /\ main_pc \in {"shutdown", "unwind"}
    /\ InFlight = {}
    /\ main_pc' = IF main_pc = "shutdown" THEN "returned" ELSE "raised"
    /\ UNCHANGED <<download_tasks, max_workers, pool, results, queue, future, run, files, dirs, log, io, dcall, cfg>>

Next ==
    \/ Start
    \/ Take
    \/ \E i \in DOMAIN run : Fetch(i)
    \/ \E i \in DOMAIN run : Resolve(i)
    \/ \E i \in DOMAIN run : LogWriteClose(i)
    \/ Collect
    \/ Shutdown

Spec == Init /\ [][Next]_vars

\* ------------------------------------------- a direct call of yt_downloader
batchVars == <<download_tasks, max_workers, main_pc, pool, results, queue, future,
               run, log, io>>

DirectUrls == {<<>>, <<" ">>, <<"b">>}

DirectArgs ==
    [ url : DirectUrls, target_dir : {DefaultDir, "d"}, only_audio : BOOLEAN,
      quality : {"highest", "lowest"}, title : {None, "t"} ]

\* Files there before the call: in the default target directory and outside it
PriorFilesDirect ==
    UNION {[S -> 1..MaxMtime] : S \in SUBSET {OldFile, Elsewhere}}

InitResolve ==
    /\ download_tasks = <<>>
    /\ max_workers = 0
    /\ main_pc = "none"
    /\ pool = 0
    /\ results = <<>>
    /\ queue = <<>>
    /\ future = <<>>
    /\ run = <<>>
    /\ files \in PriorFilesDirect
    /\ dirs = {p.dir : p \in DOMAIN files}
    /\ log = <<>>
    /\ io = {}
    /\ dcall \in {[pc |-> "call", args |-> a] : a \in DirectArgs}
    /\ cfg = NoCfg

\* Lines 36-45: the validation, the directory, the options
YtEnter ==
    /\ dcall.pc = "call"
    /\ IF UrlRejected(dcall.args.url)
       THEN /\ dcall' = [pc |-> "raised", args |-> dcall.args, error |-> ErrEmptyUrl]
            /\ UNCHANGED dirs
       ELSE \/ /\ dirs' = dirs \cup {dcall.args.target_dir}
               /\ dcall' = [dcall EXCEPT !.pc = "fetch"]
            \/ /\ dcall.args.target_dir \notin dirs
               /\ dcall' = [pc |-> "raised", args |-> dcall.args, error |-> ErrMkdir]
               /\ UNCHANGED dirs
    /\ UNCHANGED <<batchVars, files, cfg>>

\* Line 50, ydl.extract_info(url, download=True)
YtFetch ==
    /\ dcall.pc = "fetch"
    /\ \/ /\ dcall' = [pc |-> "raised", args |-> dcall.args, error |-> ErrFetch]
          /\ UNCHANGED files
       \/ \E r \in ProviderReturns(files, Opts(dcall.args), TRUE) :
            /\ files' = r.files
            /\ dcall' = [pc |-> "resolve", args |-> dcall.args, info |-> r.info]
    /\ UNCHANGED <<batchVars, dirs, cfg>>

\* Lines 52-84
YtResolve ==
    /\ dcall.pc = "resolve"
    /\ \E o \in ResolveOutcomes(dcall.info, dcall.args.target_dir, files) :
         dcall' = IF o.ok
                  THEN [pc |-> "returned", args |-> dcall.args, info |-> dcall.info,
                        path |-> o.path]
                  ELSE [pc |-> "raised", args |-> dcall.args, info |-> dcall.info,
                        error |-> o.error]
    /\ UNCHANGED <<batchVars, files, dirs, cfg>>

NextResolve == YtEnter \/ YtFetch \/ YtResolve

SpecResolve == InitResolve /\ [][NextResolve]_vars

\* ------------------------------------- get_download_tasks_from_json / _yaml
\* A parsed document is tagged by its one key: [null], [num], [str], [list]
\* or [dict]; a dict's values are tagged documents, a list's items are strs.
ConfigDefaults == {[dict |-> [quality |-> "highest", target_dir |-> "d"]],
                   [null |-> TRUE],
                   [list |-> <<>>]}

ConfigUrls == {[list |-> <<>>],
               [list |-> << <<"b">> >>],
               [list |-> << <<" ", "a">>, <<"b">> >>],
               [null |-> TRUE],
               [num |-> 7],
               [str |-> <<"a", "b">>],
               [dict |-> [b |-> [null |-> TRUE]]]}

ConfigDicts ==
    {d @@ u : d \in {EmptyDict} \cup {[defaults |-> x] : x \in ConfigDefaults},
              u \in {EmptyDict} \cup {[urls |-> x] : x \in ConfigUrls}}

Documents ==
    {[null |-> TRUE], [num |-> 7], [str |-> <<"b">>], [list |-> <<>>]}
    \cup {[dict |-> d] : d \in ConfigDicts}

\* The config file: absent, unreadable, not parsable, or parsing to a document
Sources ==
    {[file |-> "missing"], [file |-> "unreadable"], [file |-> "unparsable"]}
    \cup {[parsed |-> v] : v \in Documents}

InitConfig ==
    /\ download_tasks = <<>>
    /\ max_workers = 0
    /\ main_pc = "none"
    /\ pool = 0
    /\ results = <<>>
    /\ queue = <<>>
    /\ future = <<>>
    /\ run = <<>>
    /\ files = EmptyDict
    /\ dirs = {}
    /\ log = <<>>
    /\ io = {}
    /\ dcall = NoCall
    /\ cfg \in {[pc |-> "call", loader |-> l, source |-> src] :
                  l \in {"json", "yaml"}, src \in Sources}

IsDict(v) == "dict" \in DOMAIN v

\* `for url in urls`: what iterating the value yields (a str yields its
\* characters, a dict its keys), or that it cannot be iterated
Iterable(v) == "list" \in DOMAIN v \/ "str" \in DOMAIN v \/ "dict" \in DOMAIN v

KeysOf(d) ==
    LET RECURSIVE Enum(_)
        Enum(S) == IF S = {} THEN <<>>
                   ELSE LET k == CHOOSE x \in S : TRUE IN <<k>> \o Enum(S \ {k})
    IN Enum(DOMAIN d)

Iterate(v) ==
    IF "list" \in DOMAIN v THEN v.list
    ELSE IF "str" \in DOMAIN v THEN [k \in DOMAIN v.str |-> <<v.str[k]>>]
    ELSE KeysOf(v.dict)

BuiltinDefaults ==
    [dict |-> [quality |-> "lowest", only_audio |-> FALSE, target_dir |-> "./downloads"]]

\* _unified_download_tasks(download_config), lines 186-200
UnifiedDownloadTasks(config) ==
    IF ~IsDict(config)
    THEN [ok |-> FALSE, error |-> "AttributeError: no attribute 'get'"]
    ELSE LET defaults == Get(config.dict, "defaults", BuiltinDefaults)
             urls == Get(config.dict, "urls", [list |-> <<>>])
         IN IF ~Iterable(urls)
            THEN [ok |-> FALSE, error |-> "TypeError: object is not iterable"]
            ELSE IF Iterate(urls) = <<>>
            THEN [ok |-> TRUE, tasks |-> <<>>]
            ELSE IF ~IsDict(defaults)
            THEN [ok |-> FALSE, error |-> "TypeError: object is not a mapping"]
            ELSE [ok |-> TRUE,
                  tasks |-> [k \in DOMAIN Iterate(urls) |->
                               [url |-> Iterate(urls)[k]] @@ defaults.dict]]

\* Lines 204-211 and 215-222: open and parse inside the try, whose except
\* returns []; _unified_download_tasks after it, outside the try
Load(loader) ==
    /\ cfg.pc = "call"
    /\ cfg.loader = loader
    /\ cfg' = IF "file" \in DOMAIN cfg.source
              THEN [pc |-> "returned", loader |-> loader, source |-> cfg.source,
                    tasks |-> <<>>]
              ELSE LET r == UnifiedDownloadTasks(cfg.source.parsed)
                   IN IF r.ok
                      THEN [pc |-> "returned", loader |-> loader,
                            source |-> cfg.source, tasks |-> r.tasks]
                      ELSE [pc |-> "raised", loader |-> loader,
                            source |-> cfg.source, error |-> r.error]
    /\ UNCHANGED <<batchVars, files, dirs, dcall>>

GetDownloadTasksFromJson == Load("json")

GetDownloadTasksFromYaml == Load("yaml")

NextConfig == GetDownloadTasksFromJson \/ GetDownloadTasksFromYaml

SpecConfig == InitConfig /\ [][NextConfig]_vars

\* ================================================================== claims
\* How downloads.txt reads back: the lines of a text, as str.splitlines
RECURSIVE LinesFrom(_, _)
LinesFrom(s, cur) ==
    IF s = <<>> THEN (IF cur = <<>> THEN <<>> ELSE <<cur>>)
    ELSE IF Head(s) = "\n" THEN <<cur>> \o LinesFrom(Tail(s), <<>>)
    ELSE LinesFrom(Tail(s), Append(cur, Head(s)))

Lines(s) == LinesFrom(s, <<>>)

RECURSIVE LogContent(_)
LogContent(l) == IF l = <<>> THEN <<>> ELSE Head(l).text \o LogContent(Tail(l))

IsSuccess(r) == "path" \in DOMAIN r
IsFailure(r) == "error" \in DOMAIN r

\* A url that is empty or made of whitespace only
Blank(url) == \A k \in DOMAIN url : url[k] = " "

HasUrl(i) == "url" \in DOMAIN download_tasks[i]

Completed == main_pc \in {"returned", "raised"}

\* C1: a per-task error of any kind, a malformed task record included, becomes
\* that task's Failure and is never raised out of run_download_tasks, and no
\* task is kept from being executed by a failing sibling: no future ever holds
\* an exception or is cancelled, and the call unwinds only when the executor
\* itself could not be built.
C1_PerTaskErrorsCaptured ==
    /\ \A i \in DOMAIN future : future[i].st \notin {"exc", "cancelled"}
    /\ main_pc \in {"unwind", "raised"} => pool = 0 /\ future = <<>>

\* C2: run_download_tasks(tasks, k) returns exactly len(tasks) results for every
\* k >= 0 and every task list, the empty list and k = 0 included: a call that
\* has ended has returned, with one result per task.
C2_OneResultPerTask ==
    Completed => main_pc = "returned" /\ Len(results) = Len(download_tasks)

\* C3: a task whose result is a Success has had exactly one line, equal to its
\* url, appended to downloads.txt; a task whose result is a Failure has had
\* none; and when run_download_tasks returns, the lines appended are exactly
\* the urls of the Success results, one line each.
Appended(i) == {j \in DOMAIN log : log[j].task = i}

C4_BoundedConcurrency ==
    Cardinality(InFlight) <= Min(max_workers, Len(download_tasks))

C4_Witness ==
    /\ max_workers < Len(download_tasks)
    /\ Cardinality(InFlight) = max_workers
    /\ queue # <<>>
    /\ max_workers > 0

\* C5: the open-append-close sequence on downloads.txt is executed under mutual
\* exclusion: no two tasks are inside it at the same time.
InLogSequence == {i \in DOMAIN run : run[i].pc = "write"}

C5_LogMutualExclusion == Cardinality(InLogSequence) <= 1

\* C6: for a task whose url is empty or whitespace-only no I/O is ever done (no
\* directory created, no provider call, downloads.txt neither opened nor
\* written), its download_task result is a Failure, and so is the result that
\* run_download_tasks returns for it.
BlankTasks == {i \in DOMAIN download_tasks : HasUrl(i) /\ Blank(download_tasks[i]["url"])}

C6_BlankUrlNoIO ==
    /\ \A i \in BlankTasks :
         /\ \A e \in io : e[1] # i
         /\ i \notin InFlight
         /\ i \in DOMAIN future /\ future[i].st \notin {"pending", "cancelled"} =>
              /\ future[i].st = "done"
              /\ IsFailure(future[i].result)
              /\ future[i].result["url"] = download_tasks[i]["url"]
         /\ main_pc = "returned" =>
              IsFailure(results[i]) /\ results[i]["url"] = download_tasks[i]["url"]
    /\ \A d \in dirs :
         \/ d = DefaultDir
         \/ \E i \in DOMAIN download_tasks \ BlankTasks :
              Get(download_tasks[i], "target_dir", DefaultDir) = d

C6_Witness ==
    /\ main_pc = "returned"
    /\ \E i, j \in DOMAIN results :
         /\ download_tasks[i] = [url |-> <<" ">>, target_dir |-> "d"]
         /\ results[i] = [url |-> <<" ">>, error |-> ErrEmptyUrl]
         /\ IsSuccess(results[j])

\* C8 (as stated): whenever a fetch reports no produced files and leaves exactly
\* one new file in targetDir, yt_downloader returns that new file's path, for
\* every prior content of targetDir and every interleaving with the other tasks.
Returned(i) == run[i].pc = "write"

TaskModelArgs(task) ==
    [ url |-> task["url"],
      target_dir |-> Get(task, "target_dir", "./downloads"),
      only_audio |-> Get(task, "only_audio", FALSE),
      quality |-> Get(task, "quality", "highest"),
      title |-> Get(task, "title", None) ]

C10_TaskModelDefaults ==
    \A i \in DOMAIN run :
      run[i].pc = "fetch" => Opts(run[i].args) = Opts(TaskModelArgs(download_tasks[i]))

\* C7: after a provider call that raised no error, the output path comes from
\* the first non-empty of (1) the files the provider reported, (2) the entries
\* of targetDir, (3) the provider's nominal filename if it exists; and the call
\* fails with the no-file-produced error exactly when all three are empty.
Reported(info) ==
    {rd.filepath : rd \in {x \in Range(Get(info, "requested_downloads", <<>>)) :
                             "filepath" \in DOMAIN x}}

Listing(target_dir) == {p \in DOMAIN files : p.dir = target_dir}

Nominal(info, target_dir) ==
    IF "filename" \in DOMAIN info
    THEN {PathJoin(target_dir, info.filename)} \cap DOMAIN files
    ELSE {}

FirstNonEmpty(info, target_dir) ==
    IF Reported(info) # {} THEN Reported(info)
    ELSE IF Listing(target_dir) # {} THEN Listing(target_dir)
    ELSE Nominal(info, target_dir)

FetchReturned == dcall.pc \in {"returned", "raised"} /\ "info" \in DOMAIN dcall

WellFormed(src) ==
    /\ "parsed" \in DOMAIN src
    /\ IsDict(src.parsed)
    /\ "defaults" \in DOMAIN src.parsed.dict => IsDict(src.parsed.dict.defaults)
    /\ "urls" \in DOMAIN src.parsed.dict => "list" \in DOMAIN src.parsed.dict.urls

C9_MalformedYieldsEmpty ==
    /\ cfg.pc # "raised"
    /\ cfg.pc = "returned" /\ ~WellFormed(cfg.source) => cfg.tasks = <<>>
====
